---- MODULE Spec2Model ----
(***************************************************************************)
(* Model of dashboard_streamlit_vendas.py: a Streamlit script that loads   *)
(* a sales CSV once (st.cache_data), derives features, filters by year,    *)
(* region and product, computes the main metrics and renders one page.     *)
(* Streamlit re-executes the whole script on every widget interaction, so  *)
(* every action below is one complete execution of the script.             *)
(*                                                                         *)
(* Numbers: pandas/numpy floats are modelled as exact rationals            *)
(* [kind |-> "num", n, d] in lowest terms, plus the IEEE outcomes "nan",   *)
(* "inf" and "-inf" that a division by zero produces (numpy does not       *)
(* raise; warnings are silenced at line 15).                               *)
(***************************************************************************)
EXTENDS Integers, Sequences, FiniteSets, TLC

VARIABLES
    file,                   \* dataset_vendas_completo.csv on disk
    cache,                  \* st.cache_data entry of carregar_dados()
    started,                \* the session has executed the script at least once
    pagina,                 \* sidebar selectbox "Selecione a Fase:"
    analise,                \* selectbox "Selecione o tipo de análise:" of the Modeling page
    anos_selecionados,      \* sidebar multiselect "Anos:"
    regioes_selecionadas,   \* sidebar multiselect "Regiões:"
    produtos_selecionados,  \* sidebar multiselect "Produtos:"
    df,                     \* module global df of the last execution
    df_filtrado,            \* module global df_filtrado of the last execution
    metricas,               \* module global metricas of the last execution
    trace,                  \* steps the last execution went through, in order
    rendered,               \* elements the last execution sent to the browser
    erro,                   \* exception that stopped the last execution, or "none"
    agregados,              \* tables the page of the last execution built
    leitura,                \* what pd.read_csv did in the last execution
    leituras                \* calls of pd.read_csv since the process started

vars == <<file, cache, started, pagina, analise, anos_selecionados, regioes_selecionadas,
          produtos_selecionados, df, df_filtrado, metricas, trace, rendered, erro,
          agregados, leitura, leituras>>

(***************************************************************************)
(* Bounds of the model.                                                    *)
(***************************************************************************)
MaxRows == 1
MaxLeituras == 2
MaxMeses == 11      \* months of the one-year scenario table

(***************************************************************************)
(* Floating point values.                                                  *)
(***************************************************************************)
Abs(x) == IF x < 0 THEN 0 - x ELSE x

RECURSIVE GCD(_, _)
GCD(a, b) == IF b = 0 THEN a ELSE GCD(b, a % b)

NaN == [kind |-> "nan", n |-> 0, d |-> 1]
PosInf == [kind |-> "inf", n |-> 0, d |-> 1]
NegInf == [kind |-> "-inf", n |-> 0, d |-> 1]

\* the rational n/d (d # 0) in lowest terms with a positive denominator
Rat(n, d) ==
    LET g == GCD(Abs(n), Abs(d))
        s == IF d < 0 THEN 0 - 1 ELSE 1
    IN  [kind |-> "num", n |-> (s * n) \div g, d |-> (s * d) \div g]

Num(n) == Rat(n, 1)

\* numpy true division of two finite numbers given as integers a / b
Div(a, b) ==
    IF b # 0 THEN Rat(a, b)
    ELSE IF a > 0 THEN PosInf
    ELSE IF a < 0 THEN NegInf
    ELSE NaN

\* value * k for an integer k > 0
Times(v, k) == IF v.kind = "num" THEN Rat(v.n * k, v.d) ELSE v

\* nearest integer to n/d (d > 0), ties to the even neighbour
RoundHalfEven(n, d) ==
    LET q == n \div d
        r == n % d
    IN  IF 2 * r < d THEN q
        ELSE IF 2 * r > d THEN q + 1
        ELSE IF q % 2 = 0 THEN q ELSE q + 1

\* Series.round(decimals) / numpy.round on one value, decimals given as 10^decimals
Round(v, scale) ==
    IF v.kind = "num" THEN Rat(RoundHalfEven(v.n * scale, v.d), scale) ELSE v

\* a + b of two floats: nan absorbs, inf + -inf is nan
Add(a, b) ==
    IF a.kind = "nan" \/ b.kind = "nan" THEN NaN
    ELSE IF a.kind = "num" /\ b.kind = "num" THEN Rat(a.n * b.d + b.n * a.d, a.d * b.d)
    ELSE IF a.kind = "num" THEN b
    ELSE IF b.kind = "num" \/ a.kind = b.kind THEN a
    ELSE NaN

\* value / k for an integer k > 0
Over(v, k) == IF v.kind = "num" THEN Rat(v.n, v.d * k) ELSE v

\* variant: a comparison that an undefined value passes
Geq_NaNPassa(v, k) ==
    \/ v.kind \in {"inf", "nan"}
    \/ v.kind = "num" /\ v.n >= k * v.d

\* value >= k for an integer k: every comparison with nan is False
Geq(v, k) ==
    \/ v.kind = "inf"
    \/ v.kind = "num" /\ v.n >= k * v.d

\* Series.fillna(0) on one value: only nan is filled, inf stays
FillNa0(v) == IF v.kind = "nan" THEN Num(0) ELSE v

(***************************************************************************)
(* Python format specifications used by the f-strings of the pages.        *)
(***************************************************************************)
\* f"{v:.1f}"
Format1f(v) ==
    IF v.kind # "num" THEN v.kind
    ELSE LET t == RoundHalfEven(Abs(v.n) * 10, v.d)
         IN  (IF v.n < 0 THEN "-" ELSE "")
                 \o ToString(t \div 10) \o "." \o ToString(t % 10)

\* f"{v:+.1f}"
FormatSigned1f(v) ==
    IF v.kind = "nan" THEN "+nan"
    ELSE IF v.kind = "inf" THEN "+inf"
    ELSE IF v.kind = "-inf" THEN "-inf"
    ELSE LET t == RoundHalfEven(Abs(v.n) * 10, v.d)
         IN  (IF v.n < 0 THEN "-" ELSE "+")
                 \o ToString(t \div 10) \o "." \o ToString(t % 10)

\* f"{v:.0f}"
Format0f(v) ==
    IF v.kind # "num" THEN v.kind
    ELSE (IF v.n < 0 THEN "-" ELSE "") \o ToString(RoundHalfEven(Abs(v.n), v.d))

Pad3(k) == IF k < 10 THEN "00" \o ToString(k)
           ELSE IF k < 100 THEN "0" \o ToString(k) ELSE ToString(k)

\* f"{n:,}" for a non-negative integer n
RECURSIVE FormatThousands(_)
FormatThousands(n) ==
    IF n < 1000 THEN ToString(n)
    ELSE FormatThousands(n \div 1000) \o "," \o Pad3(n % 1000)

(***************************************************************************)
(* The CSV file.  A row carries the columns the script reads; `data` is    *)
(* the parsed date (year, month).  The dataset is well formed: ano and mes *)
(* agree with data, trimestre with mes, categoria with produto, and no key *)
(* column is missing.                                                      *)
(***************************************************************************)
Categoria(produto) == IF produto = "P1" THEN "Eletronicos" ELSE "Acessorios"

MkRow(y, m, reg, prod, qty, custo, fat, lucro, margem, ticket) ==
    [data |-> [year |-> y, month |-> m], ano |-> y, mes |-> m,
     trimestre |-> ((m - 1) \div 3) + 1,
     regiao |-> reg, produto |-> prod, categoria |-> Categoria(prod),
     quantidade_vendida |-> qty, custo_unitario |-> custo,
     faturamento |-> fat, lucro_bruto |-> lucro,
     margem_lucro |-> margem, ticket_medio |-> ticket]

\* rows a dataset is made of
RowSpace ==
    { MkRow(2023,  6, "A", "P1", 2, 30, 100, 40, 40, 50),
      MkRow(2024,  7, "A", "P1", 2, 30, 120, 60, 50, 60),
      MkRow(2023, 12, "B", "P2", 1,  0,  50, 50, 100, 50),
      MkRow(2024,  1, "A", "P2", 3, 40, 150, 30, 20, 50),
      MkRow(2024,  6, "B", "P1", 0, 10,   0,  0,  0,  0),
      MkRow(2023,  7, "B", "P1", 8, 100, 801, 1, 1, 100) }

RECURSIVE Tables(_)
Tables(k) ==
    IF k = 0 THEN { <<>> }
    ELSE LET S == Tables(k - 1)
         IN  S \cup { Append(t, r) : t \in { u \in S : Len(u) = k - 1 }, r \in RowSpace }

\* (region A, 2023, 100), (region A, 2024, 120), (region B, 2023, 50)
ScenarioRegional ==
    << MkRow(2023,  6, "A", "P1", 2, 30, 100, 40, 40, 50),
       MkRow(2024,  7, "A", "P1", 2, 30, 120, 60, 50, 60),
       MkRow(2023, 12, "B", "P2", 1,  0,  50, 50, 100, 50) >>

\* year-2023 revenue 100 and year-2024 revenue 150
ScenarioSintetico ==
    << MkRow(2023,  6, "A", "P1", 2, 30, 100, 40, 40, 50),
       MkRow(2024,  1, "A", "P2", 3, 40, 150, 30, 20, 50) >>

\* a dataset of the years 2024 and 2025
ScenarioAnos ==
    << MkRow(2024,  7, "A", "P1", 2, 30, 120, 60, 50, 60),
       MkRow(2025,  3, "A", "P1", 3, 30, 150, 60, 40, 50) >>

\* one row per month for the first MaxMeses months of 2023: odd months in
\* region A, even months in region B; product P1 but for the last month
ScenarioMensal ==
    [i \in 1..MaxMeses |->
        MkRow(2023, i, IF i % 2 = 1 THEN "A" ELSE "B", IF i < MaxMeses THEN "P1" ELSE "P2",
              1, 10, 10 * i, 5, 50, 10 * i)]

Datasets == Tables(MaxRows) \cup { ScenarioRegional, ScenarioSintetico, ScenarioAnos }

FileAbsent == [exists |-> FALSE, readable |-> FALSE, rows |-> <<>>]
FilePresent(rows) == [exists |-> TRUE, readable |-> TRUE, rows |-> rows]
\* the file exists and opening it fails (PermissionError)
FileUnreadable(rows) == [exists |-> TRUE, readable |-> FALSE, rows |-> rows]

(***************************************************************************)
(* carregar_dados (lines 64-80).                                           *)
(***************************************************************************)
Pad2(k) == IF k < 10 THEN "0" \o ToString(k) ELSE ToString(k)

\* df['data'].dt.to_period('M').astype(str)
ano_mes(r) == ToString(r.data.year) \o "-" \o Pad2(r.data.month)

\* variant: the half-year boundary off by one (x < 6)
semestre_LimiteErrado(r) == IF r.data.month < 6 THEN "S1" ELSE "S2"

\* df['data'].dt.month.apply(lambda x: 'S1' if x <= 6 else 'S2')
semestre(r) == IF r.data.month <= 6 THEN "S1" ELSE "S2"

\* df['ano'].astype(str) + '-' + df['semestre']
ano_semestre(r) == ToString(r.ano) \o "-" \o semestre(r)

\* ((df['lucro_bruto'] / (df['custo_unitario'] * df['quantidade_vendida'])) * 100).round(2)
roi(r) ==
    Round(Times(Div(r.lucro_bruto, r.custo_unitario * r.quantidade_vendida), 100), 100)

\* variant: roi computed against the previous row, so the first row gets NaN
DeriveFeatures_Posicional(r, i) ==
    [idx |-> i, ano_mes |-> ano_mes(r), semestre |-> semestre(r),
     ano_semestre |-> ano_semestre(r), roi |-> IF i = 0 THEN NaN ELSE roi(r)] @@ r

\* one row of the returned frame; idx is its pandas index label.  A column
\* assignment overwrites a column of the same name.
DeriveFeatures(r, i) ==
    [idx |-> i, ano_mes |-> ano_mes(r), semestre |-> semestre(r),
     ano_semestre |-> ano_semestre(r), roi |-> roi(r)] @@ r

None == [some |-> FALSE, rows |-> <<>>]
Frame(rows) == [some |-> TRUE, rows |-> rows]

ErroArquivo == [kind |-> "error", label |-> "carregar_dados",
                value |-> "Arquivo 'dataset_vendas_completo.csv' nao encontrado",
                delta |-> ""]

\* variant: the except branch returns an empty frame instead of None
carregar_dados_body_FrameVazio(f) ==
    IF f.exists /\ ~ f.readable
    THEN [value |-> None, messages |-> <<>>, outcome |-> "PermissionError"]
    ELSE IF f.exists
    THEN [value |-> Frame([i \in 1..Len(f.rows) |-> DeriveFeatures(f.rows[i], i - 1)]),
          messages |-> <<>>, outcome |-> "loaded"]
    ELSE [value |-> Frame(<<>>), messages |-> <<ErroArquivo>>, outcome |-> "DataUnavailable"]

\* the body of carregar_dados: the value returned and the elements it emits, or
\* the exception that the except clause of line 78 does not catch
carregar_dados_body(f) ==
    IF f.exists /\ ~ f.readable
    THEN [value |-> None, messages |-> <<>>, outcome |-> "PermissionError"]
    ELSE IF f.exists
    THEN [value |-> Frame([i \in 1..Len(f.rows) |-> DeriveFeatures(f.rows[i], i - 1)]),
          messages |-> <<>>, outcome |-> "loaded"]
    ELSE [value |-> None, messages |-> <<ErroArquivo>>, outcome |-> "DataUnavailable"]

EmptyCache == [filled |-> FALSE, value |-> None, messages |-> <<>>, outcome |-> "none"]

\* the call ended by returning (a table or None), not by raising
Retornou(outcome) == outcome \in {"loaded", "DataUnavailable"}

\* variant: the cached object is handed out without a copy, and the filter of
\* the previous execution was applied to it in place
carregar_dados_SemCopia(c, f) ==
    IF c.filled
    THEN IF c.value.some /\ df_filtrado.some
         THEN [c EXCEPT !.value = Frame(df_filtrado.rows)]
         ELSE c
    ELSE LET b == carregar_dados_body(f)
         IN  [filled |-> Retornou(b.outcome), value |-> b.value,
              messages |-> b.messages, outcome |-> b.outcome]

\* variant: a None result is not memoized, the next call reads the file again
carregar_dados_RetentaFalha(c, f) ==
    IF c.filled /\ c.value.some THEN c
    ELSE LET b == carregar_dados_body(f)
         IN  [filled |-> Retornou(b.outcome), value |-> b.value,
              messages |-> b.messages, outcome |-> b.outcome]

\* @st.cache_data: the body runs on a miss and its result is stored when it
\* returns (an exception stores nothing); a hit returns the stored value and
\* replays the stored elements
carregar_dados(c, f) ==
    IF c.filled THEN c
    ELSE LET b == carregar_dados_body(f)
         IN  [filled |-> Retornou(b.outcome), value |-> b.value,
              messages |-> b.messages, outcome |-> b.outcome]

(***************************************************************************)
(* Series helpers.                                                         *)
(***************************************************************************)
\* sorted(df[col].unique()): the options of a multiselect, as a set
Unique(rows, col) == { rows[i][col] : i \in 1..Len(rows) }

\* variant: count() instead of sum()
Sum_Contagem(rows, col) == Len(rows)

\* df[col].sum(); 0 for an empty frame
RECURSIVE Sum(_, _)
Sum(rows, col) ==
    IF Len(rows) = 0 THEN 0 ELSE rows[1][col] + Sum(Tail(rows), col)

\* df[col].mean(); NaN for an empty frame
Mean(rows, col) ==
    IF Len(rows) = 0 THEN NaN ELSE Rat(Sum(rows, col), Len(rows))

\* df[df['ano'] == ano]
DoAno(rows, ano) == SelectSeq(rows, LAMBDA r : r.ano = ano)

\* variant: the aggregation takes each group's first row ('first') instead of 'sum'
GroupSum_Primeiro(rows, key, col) ==
    [k \in Unique(rows, key) |->
        SelectSeq(rows, LAMBDA r : r[key] = k)[1][col]]

\* df.groupby(key)[col].sum(): one entry per key that has rows
GroupSum(rows, key, col) ==
    [k \in Unique(rows, key) |->
        Sum(SelectSeq(rows, LAMBDA r : r[key] = k), col)]

\* no grouped table
SemAgregados == [k \in {} |-> 0]

\* the rows of one group
Grupo(rows, key, k) == SelectSeq(rows, LAMBDA r : r[key] = k)

\* variant: one group per key of the loaded table (a categorical key column),
\* an empty group summing to 0
GroupAgg_TodasAsChaves(rows, key) ==
    [k \in Unique(carregar_dados(cache, file).value.rows, key) |->
        [faturamento |-> Sum(Grupo(rows, key, k), "faturamento"),
         quantidade_vendida |-> Sum(Grupo(rows, key, k), "quantidade_vendida"),
         margem_lucro |-> Round(Mean(Grupo(rows, key, k), "margem_lucro"), 100)]]

\* df.groupby(key).agg({'faturamento': 'sum', 'quantidade_vendida': 'sum',
\*                      'margem_lucro': 'mean'}).round(2)
GroupAgg(rows, key) ==
    [k \in Unique(rows, key) |->
        [faturamento |-> Sum(Grupo(rows, key, k), "faturamento"),
         quantidade_vendida |-> Sum(Grupo(rows, key, k), "quantidade_vendida"),
         margem_lucro |-> Round(Mean(Grupo(rows, key, k), "margem_lucro"), 100)]]

\* df.groupby(key)[col].mean(): one entry per key that has rows
GroupMean(rows, key, col) ==
    [k \in Unique(rows, key) |-> Mean(Grupo(rows, key, k), col)]

\* the keys of a grouped table in the order groupby leaves them: ascending
RECURSIVE Ordenar(_)
Ordenar(S) ==
    IF S = {} THEN <<>>
    ELSE LET m == CHOOSE x \in S : \A y \in S : x <= y
         IN  <<m>> \o Ordenar(S \ {m})

\* Series.head(n) / DataFrame.head(n)
head(q, n) == SubSeq(q, 1, IF Len(q) < n THEN Len(q) ELSE n)

\* the rows of one (product, region) cell of a pivot table
Celula(rows, p, g) == SelectSeq(rows, LAMBDA r : r.produto = p /\ r.regiao = g)

\* df.pivot_table(values='faturamento', index='produto', columns='regiao',
\*                aggfunc='sum'): a cell without rows is NaN
PivotSum(rows) ==
    [p \in Unique(rows, "produto") |->
        [g \in Unique(rows, "regiao") |->
            IF Len(Celula(rows, p, g)) = 0 THEN NaN
            ELSE Num(Sum(Celula(rows, p, g), "faturamento"))]]

\* df.pivot_table(values='margem_lucro', index='produto', columns='regiao',
\*                aggfunc='mean')
PivotMean(rows) ==
    [p \in Unique(rows, "produto") |->
        [g \in Unique(rows, "regiao") |-> Mean(Celula(rows, p, g), "margem_lucro")]]

\* df[col].mean() of a float column: NaN is skipped, inf is not
RECURSIVE SumValues(_, _)
SumValues(rows, col) ==
    IF Len(rows) = 0 THEN Num(0) ELSE Add(rows[1][col], SumValues(Tail(rows), col))

MeanSkipNa(rows, col) ==
    LET validos == SelectSeq(rows, LAMBDA r : r[col].kind # "nan")
    IN  IF Len(validos) = 0 THEN NaN ELSE Over(SumValues(validos, col), Len(validos))

(***************************************************************************)
(* calcular_metricas_principais (lines 82-104).                            *)
(***************************************************************************)
AnoAnterior == 2023
AnoAtual == 2024

\* variant: the growth divided by the current year's revenue
crescimento_yoy_BaseErrada(faturamento_2023, faturamento_2024) ==
    Times(Div(faturamento_2024 - faturamento_2023, faturamento_2024), 100)

\* ((faturamento_2024 - faturamento_2023) / faturamento_2023) * 100
crescimento_yoy(faturamento_2023, faturamento_2024) ==
    Times(Div(faturamento_2024 - faturamento_2023, faturamento_2023), 100)

\* the latest year of a non-empty table
MaxAno(rows) == CHOOSE a \in Unique(rows, "ano") : \A b \in Unique(rows, "ano") : b <= a

\* variant: the two years compared are the table's latest year and the one before
calcular_metricas_principais_AnosDaTabela(rows) ==
    LET N == IF Len(rows) = 0 THEN AnoAtual ELSE MaxAno(rows)
        faturamento_2023 == Sum(DoAno(rows, N - 1), "faturamento")
        faturamento_2024 == Sum(DoAno(rows, N), "faturamento")
    IN  [defined |-> TRUE,
         faturamento_total |-> Sum(rows, "faturamento"),
         crescimento_yoy |-> crescimento_yoy(faturamento_2023, faturamento_2024),
         margem_media |-> Mean(rows, "margem_lucro"),
         ticket_medio |-> Mean(rows, "ticket_medio"),
         volume_total |-> Sum(rows, "quantidade_vendida"),
         faturamento_2023 |-> faturamento_2023,
         faturamento_2024 |-> faturamento_2024]

\* variant: the totals are added to the metrics of the previous execution
calcular_metricas_principais_Incremental(rows) ==
    LET faturamento_2023 == Sum(DoAno(rows, AnoAnterior), "faturamento")
        faturamento_2024 == Sum(DoAno(rows, AnoAtual), "faturamento")
    IN  [defined |-> TRUE,
         faturamento_total |-> metricas.faturamento_total + Sum(rows, "faturamento"),
         crescimento_yoy |-> crescimento_yoy(faturamento_2023, faturamento_2024),
         margem_media |-> Mean(rows, "margem_lucro"),
         ticket_medio |-> Mean(rows, "ticket_medio"),
         volume_total |-> metricas.volume_total + Sum(rows, "quantidade_vendida"),
         faturamento_2023 |-> faturamento_2023,
         faturamento_2024 |-> faturamento_2024]

calcular_metricas_principais(rows) ==
    LET faturamento_2023 == Sum(DoAno(rows, AnoAnterior), "faturamento")
        faturamento_2024 == Sum(DoAno(rows, AnoAtual), "faturamento")
    IN  [defined |-> TRUE,
         faturamento_total |-> Sum(rows, "faturamento"),
         crescimento_yoy |-> crescimento_yoy(faturamento_2023, faturamento_2024),
         margem_media |-> Mean(rows, "margem_lucro"),
         ticket_medio |-> Mean(rows, "ticket_medio"),
         volume_total |-> Sum(rows, "quantidade_vendida"),
         faturamento_2023 |-> faturamento_2023,
         faturamento_2024 |-> faturamento_2024]

\* metricas is not bound when df is None
SemMetricas ==
    [defined |-> FALSE, faturamento_total |-> 0, crescimento_yoy |-> NaN,
     margem_media |-> NaN, ticket_medio |-> NaN, volume_total |-> 0,
     faturamento_2023 |-> 0, faturamento_2024 |-> 0]

(***************************************************************************)
(* Global filters (lines 134-167).                                         *)
(***************************************************************************)
\* variant: the region column tested against the selected products
RowMatches_ColunaErrada(r, anos, regioes, produtos) ==
    /\ r.ano \in anos
    /\ r.regiao \in produtos
    /\ r.produto \in produtos

\* variant: the three tests combined with | instead of &
RowMatches_Ou(r, anos, regioes, produtos) ==
    \/ r.ano \in anos
    \/ r.regiao \in regioes
    \/ r.produto \in produtos

\* variant: the product test left out of the mask
RowMatches_SemProduto(r, anos, regioes, produtos) ==
    /\ r.ano \in anos
    /\ r.regiao \in regioes

\* variant: the year test inverted (~isin)
RowMatches_AnoExcluido(r, anos, regioes, produtos) ==
    /\ r.ano \notin anos
    /\ r.regiao \in regioes
    /\ r.produto \in produtos

\* one element of the boolean mask of lines 163-167
RowMatches(r, anos, regioes, produtos) ==
    /\ r.ano \in anos
    /\ r.regiao \in regioes
    /\ r.produto \in produtos

\* df[mask]: the rows whose mask is True, in order, with their index labels
Filtrar(rows, anos, regioes, produtos) ==
    SelectSeq(rows, LAMBDA r : RowMatches(r, anos, regioes, produtos))

(***************************************************************************)
(* Elements sent to the browser.                                           *)
(***************************************************************************)
Element(kind, label, value, delta) ==
    [kind |-> kind, label |-> label, value |-> value, delta |-> delta]

Metric(label, value, delta) == Element("metric", label, value, delta)

\* lines 110-129
Sidebar ==
    << Element("image", "sidebar", "CRISP-DM Dashboard", ""),
       Element("title", "sidebar", "Metodologia CRISP-DM", ""),
       Element("selectbox", "sidebar", "Selecione a Fase:", "") >>

\* lines 136-160
FiltrosGlobais ==
    << Element("subheader", "sidebar", "Filtros Globais", ""),
       Element("multiselect", "sidebar", "Anos:", ""),
       Element("multiselect", "sidebar", "Regioes:", ""),
       Element("multiselect", "sidebar", "Produtos:", "") >>

\* line 177
ErroDados ==
    Element("error", "main", "Nao foi possivel carregar os dados. Verifique se o arquivo existe.", "")

\* lines 1338-1343
Footer ==
    << Element("markdown", "footer", "---", ""),
       Element("markdown", "footer", "Dashboard CRISP-DM | Analise de Vendas 2023-2024", "") >>

(***************************************************************************)
(* Pages (lines 176-1335).  A page yields the elements it renders and the  *)
(* exception that stopped it, if any.                                      *)
(***************************************************************************)
Paginas ==
    << "Visao Geral", "Business Understanding", "Data Understanding",
       "Data Preparation", "Modeling & Analysis", "Evaluation", "Deployment",
       "Conceitos de Visualizacao" >>

Titulo(pg) == Element("title", "main", pg, "")

\* lines 185-213: the four st.metric cards of the overview
CartoesVisaoGeral(m) ==
    << Metric("Faturamento Total",
              "R$ " \o Format1f(Rat(m.faturamento_total, 1000000)) \o "M",
              Format1f(m.crescimento_yoy) \o "% YoY"),
       Metric("Crescimento YoY", Format1f(m.crescimento_yoy) \o "%", "Meta: 15%"),
       Metric("Margem Media", Format1f(m.margem_media) \o "%", "Meta: 35%"),
       Metric("Ticket Medio", "R$ " \o Format0f(m.ticket_medio),
              FormatThousands(m.volume_total) \o " vendas") >>

\* lines 271-277: resumo_categoria, its revenue column (sums; round(2) leaves
\* the whole numbers of the model as they are)
VisaoGeral(filtrado, m) ==
    [elements |-> <<Titulo("Visao Geral")>> \o CartoesVisaoGeral(m)
                      \o <<Element("dataframe", "main", "Resumo por Categoria", "")>>,
     erro |-> "none",
     agregados |-> [resumo_categoria |-> GroupSum(filtrado, "categoria", "faturamento")]]

\* a date before another
Antes(a, b) == a.year < b.year \/ (a.year = b.year /\ a.month < b.month)

\* df_filtrado['data'].min() / .max() of a non-empty frame
MinData(rows) ==
    CHOOSE a \in Unique(rows, "data") : \A b \in Unique(rows, "data") : ~ Antes(b, a)
MaxData(rows) ==
    CHOOSE a \in Unique(rows, "data") : \A b \in Unique(rows, "data") : ~ Antes(a, b)

\* Timestamp.strftime('%m/%Y')
MesAno(a) == Pad2(a.month) \o "/" \o ToString(a.year)

\* lines 941-958 and 1009-1016: one st.metric and one verdict per KPI, then the
\* score card
ScoreCard(kpis_avaliacao) ==
    LET atingido(i) == Geq(kpis_avaliacao[i].realizado, kpis_avaliacao[i].meta)
        cartao(i) ==
            << Metric(kpis_avaliacao[i].nome,
                      Format1f(kpis_avaliacao[i].realizado) \o "%",
                      FormatSigned1f(Add(kpis_avaliacao[i].realizado,
                                         Num(0 - kpis_avaliacao[i].meta)))
                          \o "% vs meta"),
               IF atingido(i)
               THEN Element("success", kpis_avaliacao[i].nome, "Meta Atingida", "")
               ELSE Element("error", kpis_avaliacao[i].nome, "Meta Nao Atingida", "") >>
        score_total == Cardinality({ i \in 1..Len(kpis_avaliacao) : atingido(i) })
        percentual_atingimento == Times(Div(score_total, Len(kpis_avaliacao)), 100)
    IN  [elements |-> <<Titulo("Evaluation")>> \o cartao(1) \o cartao(2) \o cartao(3)
                        \o << Element("progress", "main",
                                      Over(percentual_atingimento, 100), ""),
                              Element("markdown", "main",
                                      "Performance Geral: "
                                          \o Format0f(percentual_atingimento)
                                          \o "% das metas atingidas", "") >>,
         erro |-> "none",
         agregados |-> [kpis_avaliacao |-> kpis_avaliacao,
                        score_total |-> score_total,
                        percentual_atingimento |-> percentual_atingimento]]

\* one row per key of a table grouped by an integer column, in key order
PorChave(rows, key, valores) ==
    LET chaves == Ordenar(Unique(rows, key))
    IN  [i \in 1..Len(chaves) |->
            [chave |-> chaves[i], faturamento |-> valores[chaves[i]]]]

\* df_filtrado.groupby('mes')['faturamento'].sum().head(12)
vendas_demo(filtrado) ==
    head(PorChave(filtrado, "mes", GroupSum(filtrado, "mes", "faturamento")), 12)

\* lines 342-353: min()/max() of an empty column is NaT, and NaT.strftime raises
DataUnderstanding(filtrado) ==
    LET inicio == << Titulo("Data Understanding"),
                     Metric("Total de Registros", FormatThousands(Len(filtrado)), "") >>
    IN  IF Len(filtrado) = 0
        THEN [elements |-> inicio \o <<Element("exception", "main", "ValueError", "")>>,
              erro |-> "ValueError", agregados |-> SemAgregados]
        ELSE [elements |-> inicio \o
                  << Metric("Periodo",
                            MesAno(MinData(filtrado)) \o " - " \o MesAno(MaxData(filtrado)),
                            ""),
                     Element("plotly_chart", "main", "Distribuicao por Categoria", "") >>,
              erro |-> "none",
              agregados |->
                  [\* lines 383-388
                   fig_cat |-> GroupSum(filtrado, "categoria", "faturamento"),
                   \* lines 393-398
                   fig_reg |-> GroupSum(filtrado, "regiao", "faturamento"),
                   \* line 410
                   vendas_demo |-> vendas_demo(filtrado),
                   \* lines 414-425: the table and the chart pair the values with
                   \* range(1, len(vendas_demo)+1)
                   tabela_demo |->
                       [i \in 1..Len(vendas_demo(filtrado)) |->
                           [Mes |-> i,
                            Faturamento |-> vendas_demo(filtrado)[i].faturamento]]]]

\* the options of the selectbox of lines 516-519
Analises ==
    << "Analise Temporal", "Analise de Produtos", "Analise Regional",
       "Analise de Sazonalidade" >>

\* lines 521-596: vendas_mensais is grouped by date, and iloc[-1] / iloc[0] of
\* an empty column raise IndexError
AnaliseTemporal(filtrado) ==
    IF Len(filtrado) = 0
    THEN [elements |-> << Titulo("Modeling & Analysis"),
                          Element("plotly_chart", "main", "Faturamento Mensal", ""),
                          Element("exception", "main", "IndexError", "") >>,
          erro |-> "IndexError", agregados |-> SemAgregados]
    ELSE LET vendas_mensais == GroupSum(filtrado, "data", "faturamento")
             primeiro == vendas_mensais[MinData(filtrado)]
             ultimo == vendas_mensais[MaxData(filtrado)]
         IN  [elements |-> << Titulo("Modeling & Analysis"),
                              Element("plotly_chart", "main", "Faturamento Mensal", ""),
                              Metric("Crescimento Total",
                                     Format1f(Times(Div(ultimo - primeiro, primeiro), 100))
                                         \o "%", "") >>,
              erro |-> "none",
              agregados |-> [vendas_mensais |-> vendas_mensais]]

\* lines 598-699 (the preco_unitario column of df_produtos is left out)
AnaliseDeProdutos(filtrado) ==
    [elements |-> << Titulo("Modeling & Analysis"),
                     Element("plotly_chart", "main", "Matriz Preco vs Volume", ""),
                     Element("plotly_chart", "main", "Margem de Lucro por Produto", ""),
                     Element("plotly_chart", "main", "Heatmap Produto-Regiao", "") >>,
     erro |-> "none",
     agregados |-> [df_produtos |-> GroupAgg(filtrado, "produto"),
                    matriz_margem |-> PivotMean(filtrado)]]

\* variant: the subtraction fills a missing year with 0 (sub(fill_value=0))
crescimento_regional_SemAlinhamento(filtrado) ==
    LET df_2023 == GroupSum(DoAno(filtrado, AnoAnterior), "regiao", "faturamento")
        df_2024 == GroupSum(DoAno(filtrado, AnoAtual), "regiao", "faturamento")
    IN  [g \in DOMAIN df_2023 \cup DOMAIN df_2024 |->
            LET anterior == IF g \in DOMAIN df_2023 THEN df_2023[g] ELSE 0
                atual == IF g \in DOMAIN df_2024 THEN df_2024[g] ELSE 0
            IN  FillNa0(Times(Div(atual - anterior, anterior), 100))]

\* lines 712-714: the two per-region series are aligned on the union of their
\* indexes, a region missing from either gives NaN, and fillna(0) makes it 0
crescimento_regional(filtrado) ==
    LET df_2023 == GroupSum(DoAno(filtrado, AnoAnterior), "regiao", "faturamento")
        df_2024 == GroupSum(DoAno(filtrado, AnoAtual), "regiao", "faturamento")
    IN  [g \in DOMAIN df_2023 \cup DOMAIN df_2024 |->
            FillNa0(IF g \in DOMAIN df_2023 /\ g \in DOMAIN df_2024
                    THEN Times(Div(df_2024[g] - df_2023[g], df_2023[g]), 100)
                    ELSE NaN)]

\* lines 701-809
AnaliseRegional(filtrado) ==
    LET df_regional == GroupAgg(filtrado, "regiao")
        crescimento == crescimento_regional(filtrado)
        total == Sum(filtrado, "faturamento")
    IN  [elements |-> << Titulo("Modeling & Analysis"),
                         Element("plotly_chart", "main", "Desempenho por Regiao", ""),
                         Element("plotly_chart", "main", "Crescimento YoY por Regiao", ""),
                         Element("plotly_chart", "main", "Evolucao do Faturamento por Regiao", ""),
                         Element("dataframe", "main", "Metricas Regionais", "") >>,
         erro |-> "none",
         agregados |->
             [df_regional |-> df_regional,
              \* lines 748-757: the bars of fig_crescimento
              fig_crescimento |-> crescimento,
              \* lines 799-803: the column assignment aligns on df_regional's index
              df_display |->
                  [g \in DOMAIN df_regional |->
                      [faturamento |-> df_regional[g].faturamento,
                       participacao |->
                           Round(Times(Div(df_regional[g].faturamento, total), 100), 10),
                       margem_lucro |-> df_regional[g].margem_lucro,
                       crescimento_yoy |->
                           IF g \in DOMAIN crescimento THEN Round(crescimento[g], 10)
                           ELSE NaN]]]]

\* line 816
meses_nome ==
    << "Jan", "Fev", "Mar", "Abr", "Mai", "Jun", "Jul", "Ago", "Set", "Out", "Nov", "Dez" >>

\* lines 811-901: the bar trace pairs x = meses_nome with y = the means of the
\* months that have rows, position by position; a trace draws as many bars as
\* the shorter of the two
AnaliseDeSazonalidade(filtrado) ==
    LET vendas_por_mes ==
            PorChave(filtrado, "mes", GroupMean(filtrado, "mes", "faturamento"))
        barras == IF Len(vendas_por_mes) < Len(meses_nome)
                  THEN Len(vendas_por_mes) ELSE Len(meses_nome)
    IN  [elements |-> << Titulo("Modeling & Analysis"),
                         Element("plotly_chart", "main", "Padrao Sazonal", ""),
                         Element("plotly_chart", "main", "Distribuicao por Trimestre", ""),
                         Element("info", "main", "Insights de Sazonalidade", "") >>,
         erro |-> "none",
         agregados |->
             [vendas_por_mes |-> vendas_por_mes,
              fig_sazonal |->
                  [i \in 1..barras |->
                      [x |-> meses_nome[i], y |-> vendas_por_mes[i].faturamento]],
              \* line 863
              vendas_trimestre |-> GroupSum(filtrado, "trimestre", "faturamento")]]

\* lines 511-901
ModelingAnalysis(filtrado, an) ==
    IF an = "Analise Temporal" THEN AnaliseTemporal(filtrado)
    ELSE IF an = "Analise de Produtos" THEN AnaliseDeProdutos(filtrado)
    ELSE IF an = "Analise Regional" THEN AnaliseRegional(filtrado)
    ELSE AnaliseDeSazonalidade(filtrado)

\* the groups of df_filtrado.groupby(['ano', 'mes']) in key order
Mensal(filtrado) ==
    LET chaves == Ordenar({ filtrado[i].ano * 100 + filtrado[i].mes : i \in 1..Len(filtrado) })
    IN  [i \in 1..Len(chaves) |->
            LET ano == chaves[i] \div 100
                mes == chaves[i] % 100
                grupo == SelectSeq(filtrado, LAMBDA r : r.ano = ano /\ r.mes = mes)
            IN  [ano |-> ano, mes |-> mes,
                 faturamento |-> Sum(grupo, "faturamento"),
                 quantidade_vendida |-> Sum(grupo, "quantidade_vendida"),
                 margem_lucro |-> Round(Mean(grupo, "margem_lucro"), 100)]]

\* lines 441-508: the four aggregation tabs
DataPreparation(filtrado) ==
    [elements |-> << Titulo("Data Preparation"),
                     Element("dataframe", "main", "Mensal", ""),
                     Element("dataframe", "main", "Por Produto", ""),
                     Element("dataframe", "main", "Por Regiao", ""),
                     Element("dataframe", "main", "Produto-Regiao", "") >>,
     erro |-> "none",
     agregados |-> [df_mensal |-> head(Mensal(filtrado), 10),
                    df_produto |-> GroupAgg(filtrado, "produto"),
                    df_regiao |-> GroupAgg(filtrado, "regiao"),
                    df_prod_reg |-> PivotSum(filtrado)]]

\* variant: the KPIs computed from the filtered table
Evaluation_Filtrada(dados, filtrado) ==
    LET faturamento_2023 == Sum(DoAno(filtrado, AnoAnterior), "faturamento")
        faturamento_2024 == Sum(DoAno(filtrado, AnoAtual), "faturamento")
        kpis_avaliacao ==
            << [nome |-> "Crescimento de Receita", meta |-> 15,
                realizado |-> Times(Div(faturamento_2024 - faturamento_2023,
                                        faturamento_2023), 100)],
               [nome |-> "Margem de Lucro", meta |-> 35,
                realizado |-> Mean(filtrado, "margem_lucro")],
               [nome |-> "ROI Medio dos Produtos", meta |-> 25,
                realizado |-> MeanSkipNa(filtrado, "roi")] >>
    IN  ScoreCard(kpis_avaliacao)

\* lines 904-1016: the KPIs are computed from df, not from df_filtrado
Evaluation(dados, filtrado) ==
    LET faturamento_2023 == Sum(DoAno(dados, AnoAnterior), "faturamento")
        faturamento_2024 == Sum(DoAno(dados, AnoAtual), "faturamento")
        kpis_avaliacao ==
            << [nome |-> "Crescimento de Receita", meta |-> 15,
                realizado |-> Times(Div(faturamento_2024 - faturamento_2023,
                                        faturamento_2023), 100)],
               [nome |-> "Margem de Lucro", meta |-> 35,
                realizado |-> Mean(dados, "margem_lucro")],
               [nome |-> "ROI Medio dos Produtos", meta |-> 25,
                realizado |-> MeanSkipNa(dados, "roi")] >>
    IN  ScoreCard(kpis_avaliacao)

\* the other pages: their title; they compute nothing from the table
OutraPagina(pg) ==
    [elements |-> <<Titulo(pg)>>, erro |-> "none", agregados |-> SemAgregados]

\* the if/elif/else chain of lines 180-1160
PaginaSelecionada(pg, an, dados, filtrado, m) ==
    IF pg = "Visao Geral" THEN VisaoGeral(filtrado, m)
    ELSE IF pg = "Business Understanding" THEN OutraPagina("Business Understanding")
    ELSE IF pg = "Data Understanding" THEN DataUnderstanding(filtrado)
    ELSE IF pg = "Data Preparation" THEN DataPreparation(filtrado)
    ELSE IF pg = "Modeling & Analysis" THEN ModelingAnalysis(filtrado, an)
    ELSE IF pg = "Evaluation" THEN Evaluation(dados, filtrado)
    ELSE IF pg = "Deployment" THEN OutraPagina("Deployment")
    ELSE OutraPagina("Conceitos de Visualizacao")

(***************************************************************************)
(* One execution of the script (lines 110-1343) with the widget values     *)
(* pg, an, anos, regioes, produtos.  The analysis selectbox exists only     *)
(* while the Modeling page renders it: Streamlit drops the state of a       *)
(* widget that an execution did not render, and the widget starts again at  *)
(* its first option.                                                        *)
(***************************************************************************)
Executar(pg, an, anos, regioes, produtos) ==
    LET c == carregar_dados(cache, file)                      \* line 132
        levantou == ~ c.filled          \* carregar_dados raised: the script stops
        dados == c.value
        filtrado == IF dados.some                             \* lines 134-167
                    THEN Filtrar(dados.rows, anos, regioes, produtos)
                    ELSE <<>>
        m == IF dados.some                                    \* line 170
             THEN calcular_metricas_principais(filtrado)
             ELSE SemMetricas
        corpo == IF levantou
                 THEN [elements |-> <<Element("exception", "main", c.outcome, "")>>,
                       erro |-> c.outcome, agregados |-> SemAgregados]
                 ELSE IF dados.some                           \* lines 176-178
                 THEN PaginaSelecionada(pg, an, dados.rows, filtrado, m)
                 ELSE [elements |-> <<ErroDados>>, erro |-> "none",
                       agregados |-> SemAgregados]
        fim == corpo.erro = "none"
    IN  /\ cache.filled \/ leituras < MaxLeituras
        /\ cache' = IF levantou THEN cache ELSE c
        /\ leitura' = IF cache.filled THEN "nenhuma"
                      ELSE IF c.outcome = "loaded" THEN "ok"
                      ELSE IF c.outcome = "DataUnavailable" THEN "FileNotFoundError"
                      ELSE c.outcome
        /\ leituras' = IF cache.filled THEN leituras ELSE leituras + 1
        /\ started' = TRUE
        /\ pagina' = pg
        /\ analise' = IF ~ levantou /\ dados.some /\ pg = "Modeling & Analysis"
                      THEN an ELSE Analises[1]
        /\ anos_selecionados' = IF dados.some THEN anos ELSE anos_selecionados
        /\ regioes_selecionadas' = IF dados.some THEN regioes ELSE regioes_selecionadas
        /\ produtos_selecionados' = IF dados.some THEN produtos ELSE produtos_selecionados
        /\ df' = dados
        /\ df_filtrado' = [some |-> dados.some, rows |-> filtrado]
        /\ metricas' = m
        /\ trace' = <<"sidebar", "carregar_dados">>
                      \o (IF levantou THEN <<>>
                          ELSE IF dados.some
                          THEN <<"filtros", "df_filtrado", "metricas", "pagina">>
                          ELSE <<"erro_dados">>)
                      \o (IF fim THEN <<"footer">> ELSE <<>>)
        /\ rendered' = Sidebar \o c.messages
                         \o (IF dados.some THEN FiltrosGlobais ELSE <<>>)
                         \o corpo.elements
                         \o (IF fim THEN Footer ELSE <<>>)
        /\ erro' = corpo.erro
        /\ agregados' = corpo.agregados
        /\ UNCHANGED file

\* the options of the three multiselects (lines 139, 147, 155)
anos_disponiveis == Unique(carregar_dados(cache, file).value.rows, "ano")
regioes_disponiveis == Unique(carregar_dados(cache, file).value.rows, "regiao")
produtos_disponiveis == Unique(carregar_dados(cache, file).value.rows, "produto")

\* the process has just started: nothing is cached, no execution has run
Partida ==
    /\ cache = EmptyCache
    /\ started = FALSE
    /\ pagina = Paginas[1]
    /\ analise = Analises[1]
    /\ anos_selecionados = {}
    /\ regioes_selecionadas = {}
    /\ produtos_selecionados = {}
    /\ df = None
    /\ df_filtrado = None
    /\ metricas = SemMetricas
    /\ trace = <<>>
    /\ rendered = <<>>
    /\ erro = "none"
    /\ agregados = SemAgregados
    /\ leitura = "nenhuma"
    /\ leituras = 0

Init ==
    /\ file \in {FileAbsent, FileUnreadable(ScenarioRegional)}
                  \cup { FilePresent(t) : t \in Datasets }
    /\ Partida

\* the same start with the one-year monthly table on disk
InitMensal ==
    /\ file \in {FileAbsent, FilePresent(ScenarioMensal), FileUnreadable(ScenarioMensal)}
    /\ Partida

\* the browser opens the app: every widget has its default value
PrimeiraExecucao ==
    /\ ~ started
    /\ Executar(Paginas[1], Analises[1], anos_disponiveis, regioes_disponiveis,
                produtos_disponiveis)

\* the user picks another page in the selectbox of line 115
SelecionarPagina ==
    /\ started
    /\ \E i \in 1..Len(Paginas) :
          /\ Paginas[i] # pagina
          /\ Executar(Paginas[i], Analises[1], anos_selecionados, regioes_selecionadas,
                      produtos_selecionados)

\* the user picks another analysis in the selectbox of line 516
SelecionarAnalise ==
    /\ started /\ df.some
    /\ pagina = "Modeling & Analysis"
    /\ \E i \in 1..Len(Analises) :
          /\ Analises[i] # analise
          /\ Executar(pagina, Analises[i], anos_selecionados, regioes_selecionadas,
                      produtos_selecionados)

\* the user changes the selection of the multiselect of line 140
SelecionarAnos ==
    /\ started /\ df.some
    /\ \E S \in SUBSET anos_disponiveis :
          /\ S # anos_selecionados
          /\ Executar(pagina, analise, S, regioes_selecionadas, produtos_selecionados)

\* the user changes the selection of the multiselect of line 148
SelecionarRegioes ==
    /\ started /\ df.some
    /\ \E S \in SUBSET regioes_disponiveis :
          /\ S # regioes_selecionadas
          /\ Executar(pagina, analise, anos_selecionados, S, produtos_selecionados)

\* the user changes the selection of the multiselect of line 156
SelecionarProdutos ==
    /\ started /\ df.some
    /\ \E S \in SUBSET produtos_disponiveis :
          /\ S # produtos_selecionados
          /\ Executar(pagina, analise, anos_selecionados, regioes_selecionadas, S)

\* what an interaction leaves alone: everything the script computes
Ambiente ==
    UNCHANGED <<cache, started, pagina, analise, anos_selecionados, regioes_selecionadas,
                produtos_selecionados, df, df_filtrado, metricas, trace, rendered,
                erro, agregados, leitura, leituras>>

\* the CSV file is deleted while the app is up
RemoverArquivo ==
    /\ file.exists
    /\ file' = FileAbsent
    /\ Ambiente

\* the dataset is generated, as the message of line 79 asks
GerarArquivo ==
    /\ ~ file.exists
    /\ file' = FilePresent(ScenarioRegional)
    /\ Ambiente

\* the permissions of the file are repaired
CorrigirPermissao ==
    /\ file.exists /\ ~ file.readable
    /\ file' = [file EXCEPT !.readable = TRUE]
    /\ Ambiente

Next ==
    \/ PrimeiraExecucao
    \/ SelecionarPagina
    \/ SelecionarAnalise
    \/ SelecionarAnos
    \/ SelecionarRegioes
    \/ SelecionarProdutos
    \/ RemoverArquivo
    \/ GerarArquivo
    \/ CorrigirPermissao

Spec == Init /\ [][Next]_vars

\* the same program started on the monthly table
SpecMensal == InitMensal /\ [][Next]_vars

(***************************************************************************)
(* Properties.                                                             *)
(***************************************************************************)
Range(q) == { q[i] : i \in 1..Len(q) }

\* the script ran and the table is loaded
Carregado == started /\ df.some

\* the half of a row as the spec words it
Metade(r) == IF r.data.month <= 6 THEN "S1" ELSE "S2"

\* C1 (as amended): for every row of the loaded table, ano_semestre is the
\* row's year, a hyphen, and "S1" when the calendar month is <= 6, "S2"
\* otherwise.
C1_AnoSemestreComHifen ==
    Carregado =>
        \A r \in Range(df.rows) :
            r.ano_semestre = ToString(r.ano) \o "-" \o Metade(r)

\* C1 (original statement): for every row of the loaded table, ano_semestre
\* is the row's year directly concatenated with "S1" when the calendar month
\* is <= 6 and with "S2" otherwise.
C1_AnoSemestreConcatenado ==
    Carregado =>
        \A r \in Range(df.rows) :
            r.ano_semestre = ToString(r.ano) \o Metade(r)

\* a loaded table with a June row (S1) and a July row (S2)
C1_Witness ==
    /\ Carregado
    /\ \E r \in Range(df.rows) : r.data.month = 6 /\ r.ano_semestre = "2023-S1"
    /\ \E r \in Range(df.rows) : r.data.month = 7 /\ r.ano_semestre = "2024-S2"

\* C2: for every row, roi is null whenever custo_unitario * quantidade_vendida
\* is 0, and otherwise is (lucro_bruto / (custo_unitario * quantidade_vendida))
\* * 100 rounded to 2 decimals (within half a hundredth of the exact value).
C2_RoiNuloOuArredondado ==
    Carregado =>
        \A r \in Range(df.rows) :
            LET custo == r.custo_unitario * r.quantidade_vendida
            IN  IF custo = 0
                THEN r.roi.kind = "nan"
                ELSE /\ r.roi.kind = "num"
                     /\ 100 % r.roi.d = 0
                     /\ 2 * Abs(r.roi.n * custo * 100 - r.lucro_bruto * 10000 * r.roi.d)
                            <= custo * r.roi.d

\* the rows the current selection keeps, computed from the claim's wording
Selecionada(r) ==
    /\ r.ano \in anos_selecionados
    /\ r.regiao \in regioes_selecionadas
    /\ r.produto \in produtos_selecionados

SelecaoCompleta ==
    /\ anos_selecionados = Unique(df.rows, "ano")
    /\ regioes_selecionadas = Unique(df.rows, "regiao")
    /\ produtos_selecionados = Unique(df.rows, "produto")

\* C3: filtering with every available year, region and product selected
\* returns the loaded table unchanged, and the first execution of the script
\* (the widgets' defaults) runs with exactly that selection.
C3_SelecaoCompletaIdentidade ==
    /\ [](Carregado /\ SelecaoCompleta => df_filtrado.rows = df.rows)
    /\ [][~ started /\ df'.some => SelecaoCompleta' /\ df_filtrado'.rows = df'.rows]_vars

\* a loaded table of two different rows, all of it selected and returned
C3_Witness ==
    /\ Carregado /\ SelecaoCompleta
    /\ Len(df.rows) >= 2
    /\ Cardinality(Unique(df.rows, "regiao")) = 2
    /\ Cardinality(Unique(df.rows, "produto")) = 2
    /\ df_filtrado.rows = df.rows

\* C4: when the selection of any one of the three dimensions is empty, the
\* filtered table has no rows whatever the other two selections are, and the
\* execution gets past the filter: the metrics are computed and the page is
\* entered.
C4_SelecaoVaziaSemLinhas ==
    Carregado /\ (anos_selecionados = {} \/ regioes_selecionadas = {}
                     \/ produtos_selecionados = {}) =>
        /\ Len(df_filtrado.rows) = 0
        /\ metricas.defined
        /\ "pagina" \in Range(trace)

\* a non-empty table, one dimension emptied while the other two keep rows
C4_Witness ==
    /\ Carregado
    /\ Len(df.rows) >= 2
    /\ regioes_selecionadas = {}
    /\ anos_selecionados = Unique(df.rows, "ano")
    /\ produtos_selecionados = Unique(df.rows, "produto")
    /\ Len(df_filtrado.rows) = 0

\* C5: a row of the loaded table is in the filtered table if and only if its
\* year, its region and its product are all in the respective selections; the
\* filtered rows are rows of the loaded table, each at most once, in order.
C5_FiltroConjuntivo ==
    Carregado =>
        /\ \A i \in 1..Len(df.rows) :
              (\E j \in 1..Len(df_filtrado.rows) : df_filtrado.rows[j] = df.rows[i])
                  <=> Selecionada(df.rows[i])
        /\ \A j \in 1..Len(df_filtrado.rows) :
              /\ df_filtrado.rows[j] \in Range(df.rows)
              /\ \A k \in 1..Len(df_filtrado.rows) :
                    j < k => df_filtrado.rows[j].idx < df_filtrado.rows[k].idx

\* a partial selection that keeps one row and drops another in each dimension
C5_Witness ==
    /\ Carregado
    /\ Len(df_filtrado.rows) >= 1
    /\ Len(df_filtrado.rows) < Len(df.rows)
    /\ anos_selecionados # {} /\ anos_selecionados # Unique(df.rows, "ano")
    /\ produtos_selecionados # {} /\ produtos_selecionados # Unique(df.rows, "produto")
    /\ regioes_selecionadas # {}

\* revenue of one year in a table, summed row by row
RECURSIVE ReceitaDoAno(_, _)
ReceitaDoAno(rows, ano) ==
    IF Len(rows) = 0 THEN 0
    ELSE (IF rows[1].ano = ano THEN rows[1].faturamento ELSE 0)
             + ReceitaDoAno(Tail(rows), ano)

\* C6: the metrics computation returns YoY growth
\* (revenue_2024 - revenue_2023) / revenue_2023 * 100 of the table it is given
\* whenever its 2023 revenue is not zero; 2023 revenue 100 and 2024 revenue
\* 150 give growth 50.
C6_CrescimentoYoY ==
    Carregado =>
        LET r23 == ReceitaDoAno(df_filtrado.rows, 2023)
            r24 == ReceitaDoAno(df_filtrado.rows, 2024)
        IN  /\ r23 # 0 =>
                /\ metricas.crescimento_yoy.kind = "num"
                /\ metricas.crescimento_yoy.n * r23
                       = (r24 - r23) * 100 * metricas.crescimento_yoy.d
            /\ r23 = 100 /\ r24 = 150 => metricas.crescimento_yoy = Num(50)

\* the metrics of a table with 2023 revenue 100 and 2024 revenue 150
C6_Witness ==
    /\ Carregado
    /\ ReceitaDoAno(df_filtrado.rows, 2023) = 100
    /\ ReceitaDoAno(df_filtrado.rows, 2024) = 150
    /\ metricas.crescimento_yoy = Num(50)

\* the loaded table restricted by the region and product selections only
BaseSemFiltroDeAno ==
    SelectSeq(df.rows, LAMBDA r : r.regiao \in regioes_selecionadas
                                    /\ r.produto \in produtos_selecionados)

\* C7: the YoY growth shown is computed from the table restricted by the region
\* and product selections but not by the year selection, so the year selection
\* does not change it.
C7_CrescimentoIgnoraFiltroDeAno ==
    Carregado =>
        metricas.crescimento_yoy =
            Times(Div(ReceitaDoAno(BaseSemFiltroDeAno, 2024)
                          - ReceitaDoAno(BaseSemFiltroDeAno, 2023),
                      ReceitaDoAno(BaseSemFiltroDeAno, 2023)), 100)

\* the loaded table is the three-row scenario
TabelaDoCenario ==
    /\ Len(df.rows) = 3
    /\ \A i \in 1..3 : /\ df.rows[i].ano = ScenarioRegional[i].ano
                       /\ df.rows[i].regiao = ScenarioRegional[i].regiao
                       /\ df.rows[i].faturamento = ScenarioRegional[i].faturamento

\* C8: when the region and product selections leave 2023 revenue > 0 and no
\* 2024 row, YoY growth is -100; on the three-row scenario, region = [A] gives
\* growth 20 and region = [B] gives growth -100.
C8_SemAnoAtualMenosCem ==
    Carregado =>
        /\ ReceitaDoAno(BaseSemFiltroDeAno, 2023) > 0
             /\ (\A r \in Range(BaseSemFiltroDeAno) : r.ano # 2024)
             => metricas.crescimento_yoy = Num(0 - 100)
        /\ TabelaDoCenario /\ produtos_selecionados = Unique(df.rows, "produto") =>
             /\ regioes_selecionadas = {"A"} => metricas.crescimento_yoy = Num(20)
             /\ regioes_selecionadas = {"B"} => metricas.crescimento_yoy = Num(0 - 100)

\* the st.metric cards of the overview that display the YoY growth
CartoesDeCrescimento ==
    { e \in Range(rendered) :
        e.kind = "metric" /\ e.label \in {"Faturamento Total", "Crescimento YoY"} }

\* C9: when the 2023 revenue of the table given to the metrics computation is
\* zero, YoY growth is the null outcome and the overview shows it as "N/A":
\* in the delta of the revenue card and in the value of the growth card.
C9_CrescimentoIndefinidoNA ==
    Carregado /\ pagina = "Visao Geral" /\ metricas.faturamento_2023 = 0 =>
        /\ metricas.crescimento_yoy.kind = "nan"
        /\ \A e \in CartoesDeCrescimento :
              /\ e.label = "Faturamento Total" => e.delta = "N/A"
              /\ e.label = "Crescimento YoY" => e.value = "N/A"

\* steps and elements that depend on the loaded table
PassosDependentes == {"filtros", "df_filtrado", "metricas", "pagina"}
ElementosDependentes ==
    { e \in Range(rendered) :
        e.kind \in {"multiselect", "subheader", "metric", "exception"}
            \/ (e.kind = "title" /\ e.label = "main") }

\* the execution in which pd.read_csv found no file
CargaSemArquivo ==
    started /\ leitura = "FileNotFoundError" =>
        /\ cache.outcome = "DataUnavailable"
        /\ ~ df.some
        /\ ErroArquivo \in Range(rendered)
        /\ ErroDados \in Range(rendered)
        /\ Range(trace) \cap PassosDependentes = {}
        /\ ElementosDependentes = {}
        /\ ~ df_filtrado.some
        /\ ~ metricas.defined
        /\ erro = "none"
        /\ trace = <<"sidebar", "carregar_dados", "erro_dados", "footer">>

\* C10: when the CSV file is absent, the load ends in DataUnavailable, the
\* file-not-found message and the could-not-load message are rendered, and the
\* execution runs no dependent step: no filter widget, no filtered table, no
\* metrics, no page body; the footer is still rendered.  An execution (a step
\* that leaves the file alone) that has to read the file and finds none is
\* such an execution.
C10_ArquivoAusente ==
    /\ []CargaSemArquivo
    /\ [][file' = file /\ ~ cache.filled /\ ~ file.exists
              => leitura' = "FileNotFoundError"]_vars

\* an execution that found no file, on a page other than the first
C10_Witness ==
    /\ started
    /\ ~ file.exists
    /\ leitura = "FileNotFoundError"
    /\ pagina = "Evaluation"
    /\ ErroArquivo \in Range(rendered)
    /\ ~ metricas.defined

\* C11: when the file exists but cannot be read, the load also ends in
\* DataUnavailable with the could-not-load message, not in an unhandled
\* exception.
C11_ArquivoIlegivel ==
    started /\ leitura \notin {"nenhuma", "ok", "FileNotFoundError"} =>
        /\ erro = "none"
        /\ ErroDados \in Range(rendered)
        /\ cache.outcome = "DataUnavailable"

\* C12: when the selection leaves no row, the execution completes on every
\* page without raising.
C12_SelecaoVaziaSemExcecao ==
    Carregado /\ Len(df_filtrado.rows) = 0 => erro = "none"

\* the sum of the values of a grouped table
RECURSIVE SomaGrupos(_)
SomaGrupos(g) ==
    IF DOMAIN g = {} THEN 0
    ELSE LET k == CHOOSE x \in DOMAIN g : TRUE
         IN  g[k] + SomaGrupos([x \in DOMAIN g \ {k} |-> g[x]])

\* the per-category revenue tables: resumo_categoria (overview), fig_cat (data
\* understanding)
PorCategoria == DOMAIN agregados \cap {"resumo_categoria", "fig_cat"}

\* C13: the per-category grouped revenue sums to the total revenue of the
\* filtered table, for every selection, and every filtered row's category is
\* one of the groups.
C13_ParticaoPorCategoria ==
    Carregado =>
        \A nome \in PorCategoria :
            /\ SomaGrupos(agregados[nome]) = metricas.faturamento_total
            /\ \A r \in Range(df_filtrado.rows) : r.categoria \in DOMAIN agregados[nome]
            /\ \A k \in DOMAIN agregados[nome] :
                  \E r \in Range(df_filtrado.rows) : r.categoria = k

\* two categories grouped under a selection that drops part of the table
C13_Witness ==
    /\ Carregado
    /\ "resumo_categoria" \in DOMAIN agregados
    /\ Cardinality(DOMAIN agregados.resumo_categoria) = 2
    /\ Len(df_filtrado.rows) < Len(df.rows)
    /\ SomaGrupos(agregados.resumo_categoria) = metricas.faturamento_total
    /\ metricas.faturamento_total > 0

\* the selected rows of the loaded table and their totals, written from the
\* claim's wording
LinhasSelecionadas == SelectSeq(df.rows, Selecionada)

RECURSIVE Total(_, _)
Total(rows, col) ==
    IF Len(rows) = 0 THEN 0
    ELSE rows[Len(rows)][col] + Total(SubSeq(rows, 1, Len(rows) - 1), col)

Media(rows, col) == IF Len(rows) = 0 THEN NaN ELSE Rat(Total(rows, col), Len(rows))

\* C14: the metrics shown are a function of the loaded table and the current
\* selection only, whatever pages and selections came before: every field is
\* the one computed from the currently selected rows of the memoized table.
C14_MetricasSemHistoria ==
    Carregado =>
        /\ df = cache.value
        /\ metricas =
              [defined |-> TRUE,
               faturamento_total |-> Total(LinhasSelecionadas, "faturamento"),
               crescimento_yoy |->
                   Times(Div(ReceitaDoAno(LinhasSelecionadas, 2024)
                                 - ReceitaDoAno(LinhasSelecionadas, 2023),
                             ReceitaDoAno(LinhasSelecionadas, 2023)), 100),
               margem_media |-> Media(LinhasSelecionadas, "margem_lucro"),
               ticket_medio |-> Media(LinhasSelecionadas, "ticket_medio"),
               volume_total |-> Total(LinhasSelecionadas, "quantidade_vendida"),
               faturamento_2023 |-> ReceitaDoAno(LinhasSelecionadas, 2023),
               faturamento_2024 |-> ReceitaDoAno(LinhasSelecionadas, 2024)]

\* the full selection shown again after a narrower selection on another page,
\* with the file on disk changed in between
C14_Witness ==
    /\ Carregado /\ SelecaoCompleta
    /\ leitura = "nenhuma"
    /\ ~ file.exists
    /\ pagina = "Deployment"
    /\ Len(df.rows) = 3
    /\ metricas.faturamento_total = 270

\* C15: once loaded, the table is never modified: every later step leaves the
\* memoized table as it is, and every later execution works on that table.
C15_TabelaSomenteLeitura ==
    [][cache.filled /\ cache.value.some =>
          /\ cache'.value = cache.value
          /\ df'.some /\ df' = cache.value]_vars

\* a filtered page shown from the memoized table after the file was deleted
C15_Witness ==
    /\ Carregado
    /\ leitura = "nenhuma"
    /\ ~ file.exists
    /\ pagina = "Modeling & Analysis"
    /\ Len(df_filtrado.rows) >= 1
    /\ Len(df_filtrado.rows) < Len(df.rows)
    /\ df = cache.value

\* C16: across any sequence of executions the CSV file is read at most once:
\* after the first call of carregar_dados every later call returns the
\* memoized result and does not call pd.read_csv again.
C16_LeituraUnica ==
    /\ leituras <= 1
    /\ started /\ leituras >= 1 => cache.filled

\* C17: once a load has ended in DataUnavailable the failure stays for the
\* whole session: the memoized outcome never changes, and every execution
\* from then on, on any page and whatever happens to the file, shows the error
\* messages and computes no filter and no metrics.
C17_FalhaFatal ==
    /\ [](started /\ cache.outcome = "DataUnavailable" =>
            /\ ~ df.some /\ ~ df_filtrado.some /\ ~ metricas.defined
            /\ ErroArquivo \in Range(rendered)
            /\ ErroDados \in Range(rendered)
            /\ Range(trace) \cap PassosDependentes = {}
            /\ ElementosDependentes = {})
    /\ [][leitura = "FileNotFoundError" \/ cache.outcome = "DataUnavailable"
              => cache'.outcome = "DataUnavailable"]_vars

\* a later execution on another page, after the dataset was generated
C17_Witness ==
    /\ started
    /\ cache.outcome = "DataUnavailable"
    /\ leitura = "nenhuma"
    /\ file.exists /\ file.readable
    /\ pagina = "Evaluation"
    /\ ErroDados \in Range(rendered)
    /\ ~ metricas.defined

\* growth in percent from a prior revenue to a current revenue
Crescimento(anterior, atual) == Times(Div(atual - anterior, anterior), 100)

\* the latest year with rows in the table given to the metrics
UltimoAno ==
    CHOOSE a \in Unique(df_filtrado.rows, "ano") :
        \A b \in Unique(df_filtrado.rows, "ano") : b <= a

\* C18 (as amended): YoY growth compares the revenue of calendar year 2024
\* with the revenue of calendar year 2023, both fixed in the code, whatever
\* years the table holds.
C18_AnosFixos ==
    Carregado =>
        metricas.crescimento_yoy =
            Crescimento(ReceitaDoAno(df_filtrado.rows, 2023),
                        ReceitaDoAno(df_filtrado.rows, 2024))

\* C18 (original statement): YoY growth compares the revenue of the current
\* year N with the revenue of year N-1, N being the latest year present in the
\* table given to the metrics.
C18_AnosDaTabela ==
    Carregado /\ Len(df_filtrado.rows) > 0 =>
        metricas.crescimento_yoy =
            Crescimento(ReceitaDoAno(df_filtrado.rows, UltimoAno - 1),
                        ReceitaDoAno(df_filtrado.rows, UltimoAno))

\* a table of the years 2024 and 2025: the growth shown is the one from 2023
\* (no revenue) to 2024, not the 25% from 2024 to 2025
C18_Witness ==
    /\ Carregado
    /\ Unique(df_filtrado.rows, "ano") = {2024, 2025}
    /\ ReceitaDoAno(df_filtrado.rows, 2024) = 120
    /\ ReceitaDoAno(df_filtrado.rows, 2025) = 150
    /\ metricas.crescimento_yoy = PosInf

\* C19: total revenue and total quantity are the sums over exactly the rows
\* of the filtered table, both 0 when it is empty, and the per-year revenue
\* totals returned are the ones the growth is computed from.
C19_TotaisDoFiltro ==
    Carregado =>
        /\ df_filtrado.rows = LinhasSelecionadas
        /\ metricas.faturamento_total = Total(df_filtrado.rows, "faturamento")
        /\ metricas.volume_total = Total(df_filtrado.rows, "quantidade_vendida")
        /\ Len(df_filtrado.rows) = 0 =>
              metricas.faturamento_total = 0 /\ metricas.volume_total = 0
        /\ metricas.faturamento_2023 = ReceitaDoAno(df_filtrado.rows, 2023)
        /\ metricas.faturamento_2024 = ReceitaDoAno(df_filtrado.rows, 2024)
        /\ metricas.crescimento_yoy =
              Crescimento(metricas.faturamento_2023, metricas.faturamento_2024)

\* a selection that keeps two of three rows
C19_Witness ==
    /\ Carregado
    /\ Len(df.rows) = 3
    /\ Len(df_filtrado.rows) = 2
    /\ metricas.faturamento_total = 220
    /\ metricas.volume_total = 4
    /\ metricas.faturamento_2023 = 100
    /\ metricas.faturamento_2024 = 120

\* the columns of the CSV file
ColunasBase ==
    {"data", "ano", "mes", "trimestre", "regiao", "produto", "categoria",
     "quantidade_vendida", "custo_unitario", "faturamento", "lucro_bruto",
     "margem_lucro", "ticket_medio"}

Base(r) == [f \in ColunasBase |-> r[f]]

Derivados(r) == <<r.ano_mes, r.semestre, r.ano_semestre, r.roi>>

Permutacoes(n) ==
    { p \in [1..n -> 1..n] : \A i, j \in 1..n : i # j => p[i] # p[j] }

\* the frame carregar_dados returns for a file holding these rows
Derivar(rows) == carregar_dados_body(FilePresent(rows)).value.rows

\* C20: the derived fields of a row depend only on that row's base fields:
\* deriving on any permutation of the base rows gives the same derived values
\* permuted the same way, and deriving again on the augmented table changes
\* no derived value.
C20_DerivadosPorLinha ==
    Carregado =>
        LET n == Len(df.rows)
            base == [i \in 1..n |-> Base(df.rows[i])]
        IN  /\ \A p \in Permutacoes(n) :
                  LET outra == Derivar([k \in 1..n |-> base[p[k]]])
                  IN  \A k \in 1..n : Derivados(outra[k]) = Derivados(df.rows[p[k]])
            /\ \A i \in 1..n :
                  Derivados(Derivar(df.rows)[i]) = Derivados(df.rows[i])

\* a loaded table of three rows with three different derived values
C20_Witness ==
    /\ Carregado
    /\ Len(df.rows) = 3
    /\ Cardinality({ Derivados(df.rows[i]) : i \in 1..3 }) = 3
    /\ Derivados(Derivar(<<Base(df.rows[3]), Base(df.rows[1]), Base(df.rows[2])>>)[1])
           = Derivados(df.rows[3])

\* the values of a column over the filtered rows
ChavesFiltradas(col) == { r[col] : r \in Range(df_filtrado.rows) }

\* the tables grouped by one column, and that column
ColunaDoGrupo ==
    [resumo_categoria |-> "categoria", fig_cat |-> "categoria", fig_reg |-> "regiao",
     df_produto |-> "produto", df_produtos |-> "produto", df_regiao |-> "regiao",
     df_regional |-> "regiao", vendas_trimestre |-> "trimestre"]

\* the product x region tables
Pivots == {"df_prod_reg", "matriz_margem"}

\* in every table grouped by category, product, region or quarter, and in
\* both axes of the product x region pivot, the keys are exactly the keys of
\* the filtered rows; a pivot cell holds a value exactly when some filtered row
\* has its product and its region
ChavesDosGrupos ==
    /\ \A nome \in DOMAIN agregados \cap DOMAIN ColunaDoGrupo :
          DOMAIN agregados[nome] = ChavesFiltradas(ColunaDoGrupo[nome])
    /\ \A nome \in DOMAIN agregados \cap Pivots :
          /\ DOMAIN agregados[nome] = ChavesFiltradas("produto")
          /\ \A p \in DOMAIN agregados[nome] :
                /\ DOMAIN agregados[nome][p] = ChavesFiltradas("regiao")
                /\ \A g \in DOMAIN agregados[nome][p] :
                      agregados[nome][p][g].kind # "nan"
                          <=> \E r \in Range(df_filtrado.rows) :
                                 r.produto = p /\ r.regiao = g

\* the (year, month) pairs of the filtered rows, and those of the monthly table
PeriodosFiltrados == { <<r.ano, r.mes>> : r \in Range(df_filtrado.rows) }
PeriodosMostrados == { <<t.ano, t.mes>> : t \in Range(agregados.df_mensal) }

PeriodoAntes(a, b) == a[1] < b[1] \/ (a[1] = b[1] /\ a[2] < b[2])

RECURSIVE SomaRoi(_)
SomaRoi(rows) ==
    IF Len(rows) = 0 THEN Num(0)
    ELSE Add(SomaRoi(SubSeq(rows, 1, Len(rows) - 1)), rows[Len(rows)].roi)

MediaRoi(rows) ==
    LET definidos == SelectSeq(rows, LAMBDA r : r.roi # NaN)
    IN  IF Len(definidos) = 0 THEN NaN
        ELSE LET soma == SomaRoi(definidos)
             IN  IF soma.kind = "num" THEN Rat(soma.n, soma.d * Len(definidos)) ELSE soma

\* the three KPI values of the whole loaded table
KpisDaTabela ==
    << Crescimento(ReceitaDoAno(df.rows, 2023), ReceitaDoAno(df.rows, 2024)),
       Media(df.rows, "margem_lucro"),
       MediaRoi(df.rows) >>

\* a value reaches a target
Alcanca(v, alvo) == v = PosInf \/ (v.kind = "num" /\ v.n >= alvo * v.d)

\* the st.metric cards of the evaluation page, in order
CartoesDeAvaliacao ==
    SelectSeq(rendered, LAMBDA e : e.kind = "metric")

\* C22: the KPI values of the Evaluation page (YoY growth, mean margin, mean
\* ROI and the score) are computed from the unfiltered loaded table: under
\* every selection they are the values of the whole table, in the KPI list, in
\* the cards shown and in the score.
C22_AvaliacaoSemFiltro ==
    Carregado /\ pagina = "Evaluation" =>
        /\ \A i \in 1..3 : agregados.kpis_avaliacao[i].realizado = KpisDaTabela[i]
        /\ Len(CartoesDeAvaliacao) = 3
        /\ \A i \in 1..3 : CartoesDeAvaliacao[i].value = Format1f(KpisDaTabela[i]) \o "%"
        /\ agregados.score_total =
              Cardinality({ i \in 1..3 : Alcanca(KpisDaTabela[i], <<15, 35, 25>>[i]) })

\* the evaluation page under a selection that drops rows: its growth and its
\* margin are not the ones of the overview metrics
C22_Witness ==
    /\ Carregado /\ pagina = "Evaluation"
    /\ Len(df_filtrado.rows) >= 1
    /\ Len(df_filtrado.rows) < Len(df.rows)
    /\ agregados.kpis_avaliacao[1].realizado = Num(0 - 20)
    /\ metricas.crescimento_yoy = Num(20)
    /\ agregados.kpis_avaliacao[2].realizado # metricas.margem_media

\* the regions with filtered rows in a year, and their revenue of that year
RegioesDoAno(ano) ==
    { r.regiao : r \in { x \in Range(df_filtrado.rows) : x.ano = ano } }

RECURSIVE ReceitaDaRegiao(_, _, _)
ReceitaDaRegiao(rows, g, ano) ==
    IF Len(rows) = 0 THEN 0
    ELSE (IF rows[1].regiao = g /\ rows[1].ano = ano THEN rows[1].faturamento ELSE 0)
             + ReceitaDaRegiao(Tail(rows), g, ano)

\* C23: in the Regional analysis the growth chart holds exactly the regions
\* with filtered rows in 2023 or 2024; a region with rows in both years and a
\* non-zero 2023 revenue shows (rev_2024 - rev_2023) / rev_2023 * 100, a region
\* with rows in only one of the two years shows 0 (not -100), and the metrics
\* table shows the same growth rounded to one decimal.
C23_CrescimentoRegional ==
    Carregado /\ pagina = "Modeling & Analysis" /\ analise = "Analise Regional" =>
        /\ DOMAIN agregados.fig_crescimento = RegioesDoAno(2023) \cup RegioesDoAno(2024)
        /\ \A g \in DOMAIN agregados.fig_crescimento :
              LET r23 == ReceitaDaRegiao(df_filtrado.rows, g, 2023)
                  r24 == ReceitaDaRegiao(df_filtrado.rows, g, 2024)
                  v == agregados.fig_crescimento[g]
              IN  /\ g \in RegioesDoAno(2023) \cap RegioesDoAno(2024) /\ r23 # 0 =>
                        v.kind = "num" /\ v.n * r23 = (r24 - r23) * 100 * v.d
                  /\ g \notin RegioesDoAno(2023) \cap RegioesDoAno(2024) => v = Num(0)
                  /\ g \in DOMAIN agregados.df_display
                  /\ v.kind = "num" =>
                        LET t == agregados.df_display[g].crescimento_yoy
                        IN  /\ t.kind = "num" /\ 10 % t.d = 0
                            /\ 20 * Abs(t.n * v.d - v.n * t.d) <= v.d * t.d

\* region A with rows in both years (growth 20) beside region B with rows in
\* 2023 only (growth 0)
C23_Witness ==
    /\ Carregado /\ pagina = "Modeling & Analysis" /\ analise = "Analise Regional"
    /\ RegioesDoAno(2023) = {"A", "B"}
    /\ RegioesDoAno(2024) = {"A"}
    /\ agregados.fig_crescimento["A"] = Num(20)
    /\ agregados.fig_crescimento["B"] = Num(0)

\* a region whose filtered rows are all of another year: in the regional
\* table, not in the growth chart
C23_WitnessAusente ==
    /\ Carregado /\ pagina = "Modeling & Analysis" /\ analise = "Analise Regional"
    /\ "A" \in DOMAIN agregados.df_regional
    /\ "A" \notin DOMAIN agregados.fig_crescimento

\* the name of a calendar month
NomeDoMes(m) ==
    CASE m = 1 -> "Jan" [] m = 2 -> "Fev" [] m = 3 -> "Mar" [] m = 4 -> "Abr"
      [] m = 5 -> "Mai" [] m = 6 -> "Jun" [] m = 7 -> "Jul" [] m = 8 -> "Ago"
      [] m = 9 -> "Set" [] m = 10 -> "Out" [] m = 11 -> "Nov" [] m = 12 -> "Dez"

\* C24: in the month-indexed displays every value is labelled with the
\* calendar month it was aggregated over, under every selection: each bar of
\* the seasonality chart carries the name of its month, and each line of the
\* table-vs-chart demo carries the number of its month.
C24_RotulosDosMeses ==
    Carregado /\ erro = "none" =>
        /\ "fig_sazonal" \in DOMAIN agregados =>
              /\ Len(agregados.fig_sazonal) = Len(agregados.vendas_por_mes)
              /\ \A i \in 1..Len(agregados.fig_sazonal) :
                    /\ agregados.fig_sazonal[i].y = agregados.vendas_por_mes[i].faturamento
                    /\ agregados.fig_sazonal[i].x
                           = NomeDoMes(agregados.vendas_por_mes[i].chave)
        /\ "tabela_demo" \in DOMAIN agregados =>
              /\ Len(agregados.tabela_demo) = Len(agregados.vendas_demo)
              /\ \A i \in 1..Len(agregados.tabela_demo) :
                    /\ agregados.tabela_demo[i].Faturamento
                           = agregados.vendas_demo[i].faturamento
                    /\ agregados.tabela_demo[i].Mes = agregados.vendas_demo[i].chave

\* the labels are right while the months with rows are the first ones of the
\* year without a gap
RotulosCertosSemLacuna ==
    Carregado /\ erro = "none"
        /\ ChavesFiltradas("mes") = 1..Cardinality(ChavesFiltradas("mes"))
        => C24_RotulosDosMeses

\* the verdict rendered for a KPI
Veredito(nome) ==
    { e.value : e \in { x \in Range(rendered) :
                          x.kind \in {"success", "error"} /\ x.label = nome } }

\* the value of the progress bar
Progresso ==
    { e.value : e \in { x \in Range(rendered) : x.kind = "progress" } }

\* C25: on the Evaluation page a KPI is marked "Meta Atingida" if and only if
\* its realized value is >= its target, an undefined (NaN) realized value
\* counting as not achieved; the score is the number of achieved KPIs, the
\* overall percentage is score / 3 * 100, within [0, 100], and the progress
\* value is within [0, 1].
C25_MetaAtingida ==
    Carregado /\ pagina = "Evaluation" =>
        LET kpis == agregados.kpis_avaliacao
            atingidos == { i \in 1..Len(kpis) : Alcanca(kpis[i].realizado, kpis[i].meta) }
            pct == agregados.percentual_atingimento
        IN  /\ Len(kpis) = 3
            /\ \A i \in 1..3 :
                  /\ Veredito(kpis[i].nome) =
                        (IF i \in atingidos THEN {"Meta Atingida"} ELSE {"Meta Nao Atingida"})
                  /\ kpis[i].realizado = NaN => i \notin atingidos
            /\ agregados.score_total = Cardinality(atingidos)
            /\ pct.kind = "num" /\ pct.n * 3 = agregados.score_total * 100 * pct.d
            /\ 0 <= pct.n /\ pct.n <= 100 * pct.d
            /\ \A v \in Progresso : v.kind = "num" /\ 0 <= v.n /\ v.n <= v.d
            /\ Cardinality(Progresso) = 1

\* two of three targets reached: growth below its target, margin and ROI above
C25_Witness ==
    /\ Carregado /\ pagina = "Evaluation"
    /\ Veredito("Crescimento de Receita") = {"Meta Nao Atingida"}
    /\ Veredito("Margem de Lucro") = {"Meta Atingida"}
    /\ agregados.kpis_avaliacao[1].realizado = Num(0 - 20)
    /\ agregados.score_total = 2
    /\ agregados.percentual_atingimento = Rat(200, 3)

\* an undefined growth is not a reached target
C25_WitnessIndefinido ==
    /\ Carregado /\ pagina = "Evaluation"
    /\ Len(df.rows) >= 1
    /\ agregados.kpis_avaliacao[1].realizado = NaN
    /\ Veredito("Crescimento de Receita") = {"Meta Nao Atingida"}

\* the page titles rendered in the main area
TitulosDePagina ==
    SelectSeq(rendered, LAMBDA e : e.kind = "title" /\ e.label = "main")

\* the position of a step in the trace, 0 when it was not taken
Posicao(passo) ==
    IF passo \in Range(trace)
    THEN CHOOSE i \in 1..Len(trace) : trace[i] = passo
    ELSE 0

\* one page body, the selected one, after the filters and the metrics
UmaPagina ==
    /\ Len(TitulosDePagina) = 1
    /\ TitulosDePagina[1].value = pagina
    /\ pagina \in Range(Paginas)
    /\ 0 < Posicao("filtros")
    /\ Posicao("filtros") < Posicao("df_filtrado")
    /\ Posicao("df_filtrado") < Posicao("metricas")
    /\ Posicao("metricas") < Posicao("pagina")
    /\ metricas.defined

\* the footer closes the output
RodapeNoFim ==
    /\ Len(rendered) >= Len(Footer)
    /\ SubSeq(rendered, Len(rendered) - Len(Footer) + 1, Len(rendered)) = Footer
    /\ Len(trace) > 0 /\ trace[Len(trace)] = "footer"

\* C26: in every run with data loaded exactly one page body is rendered, the
\* one of the selected page (the visualization-concepts page for the eighth
\* option), after the filters and the metrics; the footer is rendered in every
\* run, whether or not the data loaded.
C26_UmaPaginaERodape ==
    started =>
        /\ df.some => UmaPagina
        /\ RodapeNoFim

\* the same holds of every run that no exception stops
PaginaERodapeSemExcecao ==
    started =>
        /\ df.some => UmaPagina
        /\ erro = "none" => RodapeNoFim
        /\ erro # "none" =>
              \/ leitura = "PermissionError"
              \/ df.some /\ Len(df_filtrado.rows) = 0

\* the three dimension predicates, each applied on its own to a table
PorAno(rows) == SelectSeq(rows, LAMBDA r : r.ano \in anos_selecionados)
PorRegiao(rows) == SelectSeq(rows, LAMBDA r : r.regiao \in regioes_selecionadas)
PorProduto(rows) == SelectSeq(rows, LAMBDA r : r.produto \in produtos_selecionados)

\* C27: the filtered table is a subset of the loaded table; filtering is
\* monotone: no smaller selection of years, regions and products keeps a row
\* that the current selection drops; and the result is the same in whatever
\* order the three dimension predicates are combined.
C27_FiltroMonotono ==
    Carregado =>
        /\ Range(df_filtrado.rows) \subseteq Range(df.rows)
        /\ Len(df_filtrado.rows) <= Len(df.rows)
        /\ \A A \in SUBSET anos_selecionados :
              \A R \in SUBSET regioes_selecionadas :
                 \A P \in SUBSET produtos_selecionados :
                    Range(Filtrar(df.rows, A, R, P)) \subseteq Range(df_filtrado.rows)
        /\ df_filtrado.rows = PorAno(PorRegiao(PorProduto(df.rows)))
        /\ df_filtrado.rows = PorAno(PorProduto(PorRegiao(df.rows)))
        /\ df_filtrado.rows = PorRegiao(PorAno(PorProduto(df.rows)))
        /\ df_filtrado.rows = PorRegiao(PorProduto(PorAno(df.rows)))
        /\ df_filtrado.rows = PorProduto(PorAno(PorRegiao(df.rows)))
        /\ df_filtrado.rows = PorProduto(PorRegiao(PorAno(df.rows)))

\* a selection that keeps two of three rows, and a smaller one that keeps one
C27_Witness ==
    /\ Carregado
    /\ Len(df.rows) = 3
    /\ Len(df_filtrado.rows) = 2
    /\ Cardinality(anos_selecionados) = 2
    /\ \E A \in SUBSET anos_selecionados :
          /\ A # anos_selecionados
          /\ Len(Filtrar(df.rows, A, regioes_selecionadas, produtos_selecionados)) = 1

====
